---- MODULE Spec2Model ----
(***************************************************************************)
(* Model of scripts/compare-benchmarks.py: the two result parsers, the     *)
(* comparator, the two report renderers and the orchestrator main().       *)
(*                                                                         *)
(* Numbers.  Measurement values are Python floats; the model uses integers *)
(* and keeps change_percent as an exact fraction num/den (den > 0), so the *)
(* rounding of the float division is not represented.                      *)
(* Names are strings; the model writes a name as the sequence of its       *)
(* character codes so that Python's string order can be computed.          *)
(* A dict is the sequence of its entries in insertion order, keys unique.  *)
(***************************************************************************)
EXTENDS Integers, Sequences, FiniteSets, TLC

VARIABLES
    pc,                 \* position in main() / in the function under test
    dirExists,          \* results_dir.exists()
    rustLatestFile,     \* content found at rust_latest_path
    rustBaselineFile,   \* content found at rust_baseline_path
    swiftLatestFile,    \* content found at swift_latest_path (+ .json sibling)
    swiftBaselineFile,  \* content found at swift_baseline_path (+ .json sibling)
    threshold,          \* args.threshold
    format,             \* args.format
    rust_latest, rust_baseline, swift_latest, swift_baseline,
    rust_comparisons, swift_comparisons,
    report,             \* the rendered document, NoReport before rendering
    outFile,            \* content of the output file, NoReport if never written
    writes,             \* number of times the output file was written
    exitCode,           \* process exit status
    raised,             \* an exception left the function / the process
    ret                 \* return value of a parser called on its own

vars == <<pc, dirExists, rustLatestFile, rustBaselineFile, swiftLatestFile,
          swiftBaselineFile, threshold, format, rust_latest, rust_baseline,
          swift_latest, swift_baseline, rust_comparisons, swift_comparisons,
          report, outFile, writes, exitCode, raised, ret>>

----------------------------------------------------------------------------
(* Bounds of the model *)

MaxEntries == 3     \* entries of a dict handed to compare_results
MaxItems == 2       \* entries of a JSON object in a parsed file
MaxLines == 3       \* lines of a plain-text XCTest report

----------------------------------------------------------------------------
(* Names and Python's string order *)

NameA == <<1>>          \* "a"
NameAB == <<1, 2>>      \* "ab"
NameB == <<2>>          \* "b"
Names == {NameA, NameAB, NameB}

\* str.__lt__: lexicographic by code point, a proper prefix is smaller
NameLess(a, b) ==
    \E i \in 1..(Len(b)) :
        /\ \A j \in 1..(i - 1) : j <= Len(a) /\ a[j] = b[j]
        /\ \/ i = Len(a) + 1
           \/ i <= Len(a) /\ a[i] < b[i]

RECURSIVE SortAsc(_)
SortAsc(S) ==
    IF S = {} THEN <<>>
    ELSE LET m == CHOOSE x \in S : \A y \in S : x = y \/ NameLess(x, y)
         IN  <<m>> \o SortAsc(S \ {m})

RECURSIVE SortDesc(_)
SortDesc(S) ==
    IF S = {} THEN <<>>
    ELSE LET m == CHOOSE x \in S : \A y \in S : x = y \/ NameLess(y, x)
         IN  <<m>> \o SortDesc(S \ {m})

\* sorted(all_names)
sorted(S) == SortAsc(S)

----------------------------------------------------------------------------
(* dict[str, BenchmarkResult] *)

\* an optional number: None or a float
None == [tag |-> "none", n |-> 0]
Num(n) == [tag |-> "num", n |-> n]

BenchmarkResult(name, value, unit, raw_value) ==
    [name |-> name, value |-> value, unit |-> unit, raw_value |-> raw_value]

EmptyDict == <<>>

Keys(d) == {d[i].name : i \in 1..Len(d)}

Get(d, name) == d[CHOOSE i \in 1..Len(d) : d[i].name = name]

\* d[name] = r : replaces in place, a new key goes last
Put(d, r) ==
    IF r.name \in Keys(d)
    THEN [i \in 1..Len(d) |-> IF d[i].name = r.name THEN r ELSE d[i]]
    ELSE Append(d, r)

----------------------------------------------------------------------------
(* compare_results *)

\* change_percent as the fraction num/den, den > 0
ChangePercentFlipped(base, curr) ==
    IF base = 0 THEN [num |-> 0, den |-> 1]
    ELSE IF base > 0 THEN [num |-> (base - curr) * 100, den |-> base]
    ELSE [num |-> (curr - base) * 100, den |-> 0 - base]

ChangePercent(base, curr) ==
    IF base = 0 THEN [num |-> 0, den |-> 1]
    ELSE IF base > 0 THEN [num |-> (curr - base) * 100, den |-> base]
    ELSE [num |-> (base - curr) * 100, den |-> 0 - base]

\* change_percent > t and change_percent < t, for an integer t
Greater(cp, t) == cp.num > t * cp.den
Less(cp, t) == cp.num < t * cp.den

IsRegressionNonStrict(cp, t) == cp.num >= t * cp.den

IsRegression(cp, t) == Greater(cp, t)

IsImprovement(cp, t) == Less(cp, 0 - t)

ComparisonResult(base, curr, t) ==
    LET cp == ChangePercent(base.value, curr.value)
    IN  [name |-> base.name,
         baseline_value |-> base.value,
         latest_value |-> curr.value,
         unit |-> base.unit,
         change_percent |-> cp,
         is_regression |-> IsRegression(cp, t),
         is_improvement |-> IsImprovement(cp, t)]

compare_results(baseline, latest, t) ==
    LET all_names == Keys(baseline) \cup Keys(latest)
        order == sorted(all_names)
        loop[i \in 0..Len(order)] ==
            IF i = 0 THEN <<>>
            ELSE IF order[i] \notin Keys(baseline) \/ order[i] \notin Keys(latest)
                 THEN loop[i - 1]
                 ELSE Append(loop[i - 1],
                             ComparisonResult(Get(baseline, order[i]),
                                              Get(latest, order[i]), t))
    IN  loop[Len(order)]

----------------------------------------------------------------------------
(* Content of the input files *)

\* a member of a JSON object: missing, a number, or something float() rejects
Absent == [tag |-> "absent", n |-> 0]
NotNumeric == [tag |-> "str", n |-> 0]

\* what open()/json.load() find at a path
\*   "missing"        no such file
\*   "undecodable"    bytes that are not text (UnicodeDecodeError)
\*   "badjson"        text that is not JSON (json.JSONDecodeError)
\*   "top_not_object" JSON whose top level is not an object
\*   "member_not_object" the "benchmarks"/"tests" member is not an object
\*   "ok"             an object; entries are the members of "benchmarks"/"tests"
JsonFile(kind, entries) == [kind |-> kind, entries |-> entries]
MissingJson == JsonFile("missing", <<>>)

\* what open()/read() find at the plain-text path; a line is recorded by its
\* two regular-expression matches: test is group(1) of test_pattern (<<>> when
\* there is no match), measure is group(1) of pattern (Absent when there is no
\* match, NotNumeric when the matched digits and dots are no float literal)
TextFile(kind, lines) == [kind |-> kind, lines |-> lines]
MissingText == TextFile("missing", <<>>)

SwiftFile(json, text) == [json |-> json, text |-> text]

\* the value a call returns, or the fact that it raised
Outcome(r, w, res, scanned) ==
    [raised |-> r, warned |-> w, results |-> res, scanned |-> scanned]
NotCalled == [raised |-> FALSE, warned |-> FALSE, results |-> EmptyDict,
              scanned |-> FALSE, called |-> FALSE]
Called(o) == [raised |-> o.raised, warned |-> o.warned, results |-> o.results,
              scanned |-> o.scanned, called |-> TRUE]

----------------------------------------------------------------------------
(* parse_rust_results *)

\* info.get("mean_ns", info.get("value", 0))
RustValue(info) ==
    IF info.mean_ns.tag # "absent" THEN info.mean_ns
    ELSE IF info.value.tag # "absent" THEN info.value
    ELSE Num(0)

RustEntry(name, info) ==
    BenchmarkResult(name,
                    RustValue(info).n,
                    IF info.unit = "" THEN "ns" ELSE info.unit,
                    IF info.value.tag = "absent" THEN None ELSE info.value)

parse_rust_results(file) ==
    LET e == file.entries
        loop[i \in 0..Len(e)] ==
            IF i = 0 THEN [raised |-> FALSE, results |-> EmptyDict]
            ELSE LET prev == loop[i - 1]
                 IN  IF prev.raised \/ ~e[i].info.isdict THEN prev
                     ELSE IF RustValue(e[i].info).tag # "num"
                          THEN [raised |-> TRUE, results |-> prev.results]
                          ELSE [raised |-> FALSE,
                                results |-> Put(prev.results,
                                                RustEntry(e[i].name, e[i].info))]
    IN  CASE file.kind \in {"missing", "badjson"} ->
                Outcome(FALSE, TRUE, EmptyDict, FALSE)
          [] file.kind \in {"undecodable", "top_not_object", "member_not_object"} ->
                Outcome(TRUE, FALSE, EmptyDict, FALSE)
          [] OTHER ->
                IF loop[Len(e)].raised
                THEN Outcome(TRUE, FALSE, EmptyDict, FALSE)
                ELSE Outcome(FALSE, FALSE, loop[Len(e)].results, FALSE)

----------------------------------------------------------------------------
(* parse_swift_results *)

\* value * 1000  # Convert to ms
SecondsToMs(v) == v * 1000

\* info.get("average_seconds", 0)
SwiftValue(info) ==
    IF info.average_seconds.tag # "absent" THEN info.average_seconds ELSE Num(0)

\* the loop over tests.items()
SwiftJsonLoop(e) ==
    LET loop[i \in 0..Len(e)] ==
            IF i = 0 THEN [raised |-> FALSE, results |-> EmptyDict]
            ELSE LET prev == loop[i - 1]
                 IN  IF prev.raised \/ ~e[i].info.isdict THEN prev
                     ELSE IF SwiftValue(e[i].info).tag # "num"
                          THEN [raised |-> TRUE, results |-> prev.results]
                          ELSE [raised |-> FALSE,
                                results |-> Put(prev.results,
                                    BenchmarkResult(e[i].name,
                                        SecondsToMs(SwiftValue(e[i].info).n),
                                        "ms", None))]
    IN  loop[Len(e)]

\* one iteration of "for line in lines": st is (current_test, results, raised)
ScanLineNoNameCheck(st, line) ==
    LET cur == IF line.test # <<>> THEN line.test ELSE st.current_test
    IN  IF line.measure.tag # "absent"
        THEN IF line.measure.tag # "num"
             THEN [current_test |-> cur, results |-> st.results, raised |-> TRUE]
             ELSE [current_test |-> cur,
                   results |-> Put(st.results,
                                   BenchmarkResult(cur,
                                       SecondsToMs(line.measure.n), "ms", None)),
                   raised |-> FALSE]
        ELSE [current_test |-> cur, results |-> st.results, raised |-> FALSE]

ScanLine(st, line) ==
    LET cur == IF line.test # <<>> THEN line.test ELSE st.current_test
    IN  IF line.measure.tag # "absent" /\ cur # <<>>
        THEN IF line.measure.tag # "num"
             THEN [current_test |-> cur, results |-> st.results, raised |-> TRUE]
             ELSE [current_test |-> cur,
                   results |-> Put(st.results,
                                   BenchmarkResult(cur,
                                       SecondsToMs(line.measure.n), "ms", None)),
                   raised |-> FALSE]
        ELSE [current_test |-> cur, results |-> st.results, raised |-> FALSE]

\* the loop over content.split("\n"), started with the results so far
SwiftTextLoop(lines, results) ==
    LET loop[i \in 0..Len(lines)] ==
            IF i = 0
            THEN [current_test |-> <<>>, results |-> results, raised |-> FALSE]
            ELSE IF loop[i - 1].raised THEN loop[i - 1]
                 ELSE ScanLine(loop[i - 1], lines[i])
    IN  loop[Len(lines)]

\* the "Fall back to parsing text output" half, lines 107-136
SwiftTextStage(text, results) ==
    CASE text.kind = "missing" -> Outcome(FALSE, FALSE, results, FALSE)
      [] text.kind = "undecodable" -> Outcome(TRUE, FALSE, EmptyDict, FALSE)
      [] OTHER ->
            LET r == SwiftTextLoop(text.lines, results)
            IN  IF r.raised THEN Outcome(TRUE, FALSE, EmptyDict, TRUE)
                ELSE Outcome(FALSE, FALSE, r.results, TRUE)

\* json.JSONDecodeError in the sibling: "pass", and the text is tried
JsonFallsThroughAlways(kind) == TRUE

JsonFallsThrough(kind) == kind = "badjson"

parse_swift_results(file) ==
    CASE file.json.kind = "missing" -> SwiftTextStage(file.text, EmptyDict)
      [] JsonFallsThrough(file.json.kind) -> SwiftTextStage(file.text, EmptyDict)
      [] file.json.kind \in {"undecodable", "top_not_object", "member_not_object"} ->
            Outcome(TRUE, FALSE, EmptyDict, FALSE)
      [] OTHER ->
            LET r == SwiftJsonLoop(file.json.entries)
            IN  IF r.raised THEN Outcome(TRUE, FALSE, EmptyDict, FALSE)
                ELSE Outcome(FALSE, FALSE, r.results, FALSE)

----------------------------------------------------------------------------
(* format_value: the branch taken, as value / div printed with `decimals`    *)
(* digits and followed by suffix                                             *)

Formatted(value, div, decimals, suffix) ==
    [value |-> value, div |-> div, decimals |-> decimals, suffix |-> suffix]

format_value(value, unit) ==
    CASE unit = "ns" ->
            IF value >= 1000000000 THEN Formatted(value, 1000000000, 2, "s")
            ELSE IF value >= 1000000 THEN Formatted(value, 1000000, 2, "ms")
            ELSE IF value >= 1000 THEN Formatted(value, 1000, 2, "us")
            ELSE Formatted(value, 1, 0, "ns")
      [] unit = "ms" ->
            IF value >= 1000 THEN Formatted(value, 1000, 2, "s")
            ELSE Formatted(value, 1, 2, "ms")
      [] unit = "s" -> Formatted(value, 1, 3, "s")
      [] OTHER -> Formatted(value, 1, 2, unit)

----------------------------------------------------------------------------
(* The report renderers.  A document is kept as the sequence of its parts;   *)
(* empty lines, the timestamp and the metadata cells are left out.           *)

NoReport == [format |-> "none"]


is_regression(c) == c.is_regression
is_improvement(c) == c.is_improvement

\* "regression" if c.is_regression else ("improvement" if ... else "unchanged")
\* sum(1 for c in s if c.is_regression), sum(1 for c in s if c.is_improvement)
CountRegressions(s) == Len(SelectSeq(s, is_regression))
CountImprovements(s) == Len(SelectSeq(s, is_improvement))

Status(c) ==
    IF c.is_regression THEN "regression"
    ELSE IF c.is_improvement THEN "improvement"
    ELSE "unchanged"

\* one "| name | base | curr | change (status) |" line of a per-source table
TableRow(kind, c) ==
    [kind |-> kind,
     name |-> c.name,
     base_str |-> format_value(c.baseline_value, c.unit),
     curr_str |-> format_value(c.latest_value, c.unit),
     change |-> c.change_percent,
     sign |-> IF c.is_regression THEN "+" ELSE IF c.is_improvement THEN "" ELSE "+-",
     status |-> Status(c)]

\* the lines of "for c in rust_comparisons" / "for c in swift_comparisons"
TableRows(kind, s) == [i \in 1..Len(s) |-> TableRow(kind, s[i])]

RegressionItem(c) ==
    [kind |-> "regression_item",
     name |-> c.name,
     base_str |-> format_value(c.baseline_value, c.unit),
     curr_str |-> format_value(c.latest_value, c.unit),
     change |-> c.change_percent]

RegressionItems(s) == [i \in 1..Len(s) |-> RegressionItem(s[i])]

ImprovementItem(c) ==
    [kind |-> "improvement_item",
     name |-> c.name,
     base_str |-> format_value(c.baseline_value, c.unit),
     curr_str |-> format_value(c.latest_value, c.unit),
     change |-> c.change_percent]

ImprovementItems(s) == [i \in 1..Len(s) |-> ImprovementItem(s[i])]

\* rust_comparisons + swift_comparisons, as the roll-up sections read it
RollUpRustOnly(rust, swift) == rust

RollUp(rust, swift) == rust \o swift

generate_markdown_report(rust, swift) ==
    LET total_tests == Len(rust) + Len(swift)
        regressions == CountRegressions(rust \o swift)
        improvements == CountImprovements(rust \o swift)
        unchanged == total_tests - regressions - improvements
        regression_list == SelectSeq(RollUp(rust, swift), is_regression)
        improvement_list == SelectSeq(RollUp(rust, swift), is_improvement)
        lines ==
            <<[kind |-> "title"], [kind |-> "environment"]>>
            \o (IF regressions > 0
                THEN <<[kind |-> "headline", regressions |-> regressions]>>
                ELSE <<>>)
            \o <<[kind |-> "summary", total |-> total_tests,
                  improvements |-> improvements, regressions |-> regressions,
                  unchanged |-> unchanged]>>
            \o (IF rust # <<>>
                THEN <<[kind |-> "rust_table"]>> \o TableRows("rust_row", rust)
                ELSE <<>>)
            \o (IF swift # <<>>
                THEN <<[kind |-> "swift_table"]>> \o TableRows("swift_row", swift)
                ELSE <<>>)
            \o (IF regression_list # <<>>
                THEN <<[kind |-> "regressions_section"]>>
                     \o RegressionItems(regression_list)
                ELSE <<>>)
            \o (IF improvement_list # <<>>
                THEN <<[kind |-> "improvements_section"]>>
                     \o ImprovementItems(improvement_list)
                ELSE <<>>)
    IN  [format |-> "markdown", lines |-> lines]

JsonRecord(c) ==
    [name |-> c.name, baseline |-> c.baseline_value, current |-> c.latest_value,
     unit |-> c.unit, change_percent |-> c.change_percent, status |-> Status(c)]

\* the dict handed to json.dumps, without "generated" and "metadata"
generate_json_report(rust, swift) ==
    [format |-> "json",
     summary |-> [total |-> Len(rust) + Len(swift),
                  regressions |-> CountRegressions(rust \o swift),
                  improvements |-> CountImprovements(rust \o swift)],
     rust |-> [i \in 1..Len(rust) |-> JsonRecord(rust[i])],
     swift |-> [i \in 1..Len(swift) |-> JsonRecord(swift[i])]]

----------------------------------------------------------------------------
(* main *)

\* "if not rust_latest and not swift_latest"
NoResultsNever(rl, sl) == FALSE

NoResults(rl, sl) == rl = EmptyDict /\ sl = EmptyDict

\* "parse_x(path) if path and path.exists() else {}"; the path given to
\* parse_swift_results is the plain-text one
NotParsed == Outcome(FALSE, FALSE, EmptyDict, FALSE)
RustOrEmpty(file) ==
    IF file.kind # "missing" THEN parse_rust_results(file) ELSE NotParsed
SwiftOrEmpty(file) ==
    IF file.text.kind # "missing" THEN parse_swift_results(file) ELSE NotParsed

\* lines 471-474
CheckDir ==
    /\ pc = "check_dir"
    /\ pc' = IF dirExists THEN "parse" ELSE "done"
    /\ exitCode' = IF dirExists THEN exitCode ELSE 1
    /\ UNCHANGED <<dirExists, rustLatestFile, rustBaselineFile, swiftLatestFile,
                   swiftBaselineFile, threshold, format, rust_latest,
                   rust_baseline, swift_latest, swift_baseline, rust_comparisons,
                   swift_comparisons, report, outFile, writes, raised, ret>>

\* lines 498-502; an exception that leaves a parser ends the process with a
\* traceback and status 1, the later assignments are not made
ParseResults ==
    /\ pc = "parse"
    /\ LET rl == RustOrEmpty(rustLatestFile)
           rb == RustOrEmpty(rustBaselineFile)
           sl == SwiftOrEmpty(swiftLatestFile)
           sb == SwiftOrEmpty(swiftBaselineFile)
           r1 == rl.raised
           r2 == r1 \/ rb.raised
           r3 == r2 \/ sl.raised
           r4 == r3 \/ sb.raised
       IN  /\ rust_latest' = IF r1 THEN EmptyDict ELSE rl.results
           /\ rust_baseline' = IF r2 THEN EmptyDict ELSE rb.results
           /\ swift_latest' = IF r3 THEN EmptyDict ELSE sl.results
           /\ swift_baseline' = IF r4 THEN EmptyDict ELSE sb.results
           /\ raised' = r4
           /\ exitCode' = IF r4 THEN 1 ELSE exitCode
           /\ pc' = IF r4 THEN "done" ELSE "check_data"
    /\ UNCHANGED <<dirExists, rustLatestFile, rustBaselineFile, swiftLatestFile,
                   swiftBaselineFile, threshold, format, rust_comparisons,
                   swift_comparisons, report, outFile, writes, ret>>

\* lines 504-506
CheckData ==
    /\ pc = "check_data"
    /\ pc' = IF NoResults(rust_latest, swift_latest) THEN "done" ELSE "compare"
    /\ exitCode' = IF NoResults(rust_latest, swift_latest) THEN 1 ELSE exitCode
    /\ UNCHANGED <<dirExists, rustLatestFile, rustBaselineFile, swiftLatestFile,
                   swiftBaselineFile, threshold, format, rust_latest,
                   rust_baseline, swift_latest, swift_baseline, rust_comparisons,
                   swift_comparisons, report, outFile, writes, raised, ret>>

\* lines 508-510
Compare ==
    /\ pc = "compare"
    /\ rust_comparisons' = compare_results(rust_baseline, rust_latest, threshold)
    /\ swift_comparisons' = compare_results(swift_baseline, swift_latest, threshold)
    /\ pc' = "render"
    /\ UNCHANGED <<dirExists, rustLatestFile, rustBaselineFile, swiftLatestFile,
                   swiftBaselineFile, threshold, format, rust_latest,
                   rust_baseline, swift_latest, swift_baseline, report, outFile,
                   writes, exitCode, raised, ret>>

\* lines 516-525
GenerateReport ==
    /\ pc = "render"
    /\ report' = IF format = "markdown"
                 THEN generate_markdown_report(rust_comparisons, swift_comparisons)
                 ELSE generate_json_report(rust_comparisons, swift_comparisons)
    /\ pc' = "write"
    /\ UNCHANGED <<dirExists, rustLatestFile, rustBaselineFile, swiftLatestFile,
                   swiftBaselineFile, threshold, format, rust_latest,
                   rust_baseline, swift_latest, swift_baseline, rust_comparisons,
                   swift_comparisons, outFile, writes, exitCode, raised, ret>>

\* lines 527-539
WriteReport ==
    /\ pc = "write"
    /\ outFile' = report
    /\ writes' = writes + 1
    /\ pc' = "exit"
    /\ UNCHANGED <<dirExists, rustLatestFile, rustBaselineFile, swiftLatestFile,
                   swiftBaselineFile, threshold, format, rust_latest,
                   rust_baseline, swift_latest, swift_baseline, rust_comparisons,
                   swift_comparisons, report, exitCode, raised, ret>>

\* lines 541-545
ExitStatus ==
    /\ pc = "exit"
    /\ exitCode' = IF CountRegressions(rust_comparisons \o swift_comparisons) > 0
                   THEN 1 ELSE exitCode
    /\ pc' = "done"
    /\ UNCHANGED <<dirExists, rustLatestFile, rustBaselineFile, swiftLatestFile,
                   swiftBaselineFile, threshold, format, rust_latest,
                   rust_baseline, swift_latest, swift_baseline, rust_comparisons,
                   swift_comparisons, report, outFile, writes, raised, ret>>

----------------------------------------------------------------------------
(* A parser called on its own *)

CallParseRust ==
    /\ pc = "call_rust"
    /\ ret' = Called(parse_rust_results(rustLatestFile))
    /\ raised' = parse_rust_results(rustLatestFile).raised
    /\ pc' = "done_rust"
    /\ UNCHANGED <<dirExists, rustLatestFile, rustBaselineFile, swiftLatestFile,
                   swiftBaselineFile, threshold, format, rust_latest,
                   rust_baseline, swift_latest, swift_baseline, rust_comparisons,
                   swift_comparisons, report, outFile, writes, exitCode>>

CallParseSwift ==
    /\ pc = "call_swift"
    /\ ret' = Called(parse_swift_results(swiftLatestFile))
    /\ raised' = parse_swift_results(swiftLatestFile).raised
    /\ pc' = "done_swift"
    /\ UNCHANGED <<dirExists, rustLatestFile, rustBaselineFile, swiftLatestFile,
                   swiftBaselineFile, threshold, format, rust_latest,
                   rust_baseline, swift_latest, swift_baseline, rust_comparisons,
                   swift_comparisons, report, outFile, writes, exitCode>>

----------------------------------------------------------------------------
(* Inputs *)

\* sequences of at most max members of E with pairwise different names
DistinctSeqs(E, max) ==
    {d \in UNION {[1..k -> E] : k \in 0..max} :
        \A i, j \in 1..Len(d) : i # j => d[i].name # d[j].name}

Thresholds == {0 - 1, 0, 5}
Formats == {"markdown", "json"}

\* mappings handed to compare_results
BaselineValues == {0 - 100, 0, 100}
LatestValues == {0, 100, 105, 110}
Measurements(names, values, unit) ==
    {BenchmarkResult(n, v, unit, None) : n \in names, v \in values}
CompareBaselines == DistinctSeqs(Measurements(Names, BaselineValues, "ns"), MaxEntries)
CompareLatests == DistinctSeqs(Measurements(Names, LatestValues, "ns"), MaxEntries)

\* mappings of the two sources in a rendered run
ReportNames == {NameA, NameB}
Ascending(d) == \A i \in 1..(Len(d) - 1) : NameLess(d[i].name, d[i + 1].name)
ReportBaselines(unit) ==
    {d \in DistinctSeqs(Measurements(ReportNames, {100}, unit), 2) : Ascending(d)}
ReportLatests(unit) ==
    {d \in DistinctSeqs(Measurements(ReportNames, {0, 100, 110}, unit), 2) :
        Ascending(d)}

\* JSON result files of tool-chain A
RustInfos ==
    {[isdict |-> FALSE, mean_ns |-> Absent, value |-> Absent, unit |-> ""]}
    \cup [isdict : {TRUE},
          mean_ns : {Absent, Num(250), NotNumeric},
          value : {Absent, Num(100)},
          unit : {"", "ms"}]
BadKinds == {"missing", "undecodable", "badjson", "top_not_object",
             "member_not_object"}
RustFiles ==
    {JsonFile(k, <<>>) : k \in BadKinds}
    \cup {JsonFile("ok", e) :
            e \in DistinctSeqs([name : Names, info : RustInfos], MaxItems)}

\* JSON sibling files and plain-text reports of tool-chain B
SwiftInfos ==
    [isdict : {TRUE}, average_seconds : {Absent, Num(2), NotNumeric}]
    \cup {[isdict |-> FALSE, average_seconds |-> Absent]}
SwiftJsonFiles ==
    {JsonFile(k, <<>>) : k \in BadKinds}
    \cup {JsonFile("ok", e) :
            e \in DistinctSeqs([name : Names, info : SwiftInfos], MaxItems)}
Lines == [test : {<<>>} \cup ReportNames, measure : {Absent, Num(2), Num(3), NotNumeric}]
SwiftTextFiles ==
    {MissingText, TextFile("undecodable", <<>>)}
    \cup {TextFile("ok", l) : l \in UNION {[1..k -> Lines] : k \in 0..MaxLines}}
OneTest(name, seconds) ==
    TextFile("ok", <<[test |-> name, measure |-> Num(seconds)]>>)
OneSibling(name, seconds) ==
    JsonFile("ok", <<[name |-> name,
                      info |-> [isdict |-> TRUE, average_seconds |-> Num(seconds)]]>>)
SwiftFiles ==
    {SwiftFile(j, t) :
        j \in SwiftJsonFiles,
        t \in {MissingText, TextFile("undecodable", <<>>), OneTest(NameA, 3)}}
    \cup {SwiftFile(j, t) :
            j \in {MissingJson, JsonFile("badjson", <<>>), OneSibling(NameB, 2)},
            t \in SwiftTextFiles}

\* files found by a run of main
OneBenchmark(name, mean_ns) ==
    JsonFile("ok", <<[name |-> name,
                      info |-> [isdict |-> TRUE, mean_ns |-> Num(mean_ns),
                                value |-> Absent, unit |-> ""]]>>)
MainRustLatest ==
    {JsonFile("missing", <<>>), JsonFile("badjson", <<>>), JsonFile("ok", <<>>),
     JsonFile("top_not_object", <<>>), OneBenchmark(NameA, 100),
     OneBenchmark(NameA, 110)}
MainRustBaseline ==
    {JsonFile("missing", <<>>), JsonFile("top_not_object", <<>>),
     OneBenchmark(NameA, 100)}
MainSwiftLatest ==
    {SwiftFile(MissingJson, MissingText),
     SwiftFile(MissingJson, OneTest(NameB, 2)),
     SwiftFile(OneSibling(NameB, 3), OneTest(NameB, 2)),
     SwiftFile(JsonFile("badjson", <<>>), OneTest(NameB, 3))}
MainSwiftBaseline ==
    {SwiftFile(MissingJson, MissingText),
     SwiftFile(MissingJson, OneTest(NameB, 2))}

----------------------------------------------------------------------------
(* Specifications *)

\* what holds before anything has run
Fresh ==
    /\ rust_latest = EmptyDict /\ rust_baseline = EmptyDict
    /\ swift_latest = EmptyDict /\ swift_baseline = EmptyDict
    /\ rust_comparisons = <<>> /\ swift_comparisons = <<>>
    /\ report = NoReport /\ outFile = NoReport
    /\ writes = 0 /\ exitCode = 0 /\ raised = FALSE /\ ret = NotCalled

NoFiles ==
    /\ dirExists = TRUE
    /\ rustLatestFile = JsonFile("missing", <<>>)
    /\ rustBaselineFile = JsonFile("missing", <<>>)
    /\ swiftLatestFile = SwiftFile(MissingJson, MissingText)
    /\ swiftBaselineFile = SwiftFile(MissingJson, MissingText)

\* a run of main
Init ==
    /\ pc = "check_dir"
    /\ dirExists \in BOOLEAN
    /\ rustLatestFile \in MainRustLatest
    /\ rustBaselineFile \in MainRustBaseline
    /\ swiftLatestFile \in MainSwiftLatest
    /\ swiftBaselineFile \in MainSwiftBaseline
    /\ threshold \in Thresholds
    /\ format \in Formats
    /\ Fresh

Next ==
    \/ CheckDir
    \/ ParseResults
    \/ CheckData
    \/ Compare
    \/ GenerateReport
    \/ WriteReport
    \/ ExitStatus

Spec == Init /\ [][Next]_vars

\* compare_results applied to one pair of mappings
InitCompare ==
    /\ pc = "compare"
    /\ NoFiles
    /\ threshold \in Thresholds
    /\ format = "markdown"
    /\ rust_baseline \in CompareBaselines
    /\ rust_latest \in CompareLatests
    /\ swift_baseline = EmptyDict /\ swift_latest = EmptyDict
    /\ rust_comparisons = <<>> /\ swift_comparisons = <<>>
    /\ report = NoReport /\ outFile = NoReport
    /\ writes = 0 /\ exitCode = 0 /\ raised = FALSE /\ ret = NotCalled

NextCompare == Compare

SpecCompare == InitCompare /\ [][NextCompare]_vars

\* the comparator and a renderer applied to the mappings of both sources
InitReport ==
    /\ pc = "compare"
    /\ NoFiles
    /\ threshold \in Thresholds
    /\ format \in Formats
    /\ rust_baseline \in ReportBaselines("ns")
    /\ rust_latest \in ReportLatests("ns")
    /\ swift_baseline \in ReportBaselines("ms")
    /\ swift_latest \in ReportLatests("ms")
    /\ rust_comparisons = <<>> /\ swift_comparisons = <<>>
    /\ report = NoReport /\ outFile = NoReport
    /\ writes = 0 /\ exitCode = 0 /\ raised = FALSE /\ ret = NotCalled

NextReport == Compare \/ GenerateReport

SpecReport == InitReport /\ [][NextReport]_vars

\* one parser applied to one file
InitParse ==
    /\ dirExists = TRUE
    /\ rustBaselineFile = JsonFile("missing", <<>>)
    /\ swiftBaselineFile = SwiftFile(MissingJson, MissingText)
    /\ threshold = 5
    /\ format = "markdown"
    /\ Fresh
    /\ \/ /\ pc = "call_rust"
          /\ rustLatestFile \in RustFiles
          /\ swiftLatestFile = SwiftFile(MissingJson, MissingText)
       \/ /\ pc = "call_swift"
          /\ rustLatestFile = JsonFile("missing", <<>>)
          /\ swiftLatestFile \in SwiftFiles

NextParse == CallParseRust \/ CallParseSwift

SpecParse == InitParse /\ [][NextParse]_vars

----------------------------------------------------------------------------
(* Properties *)

Compared == pc = "render"
ComparedNames == [i \in 1..Len(rust_comparisons) |-> rust_comparisons[i].name]
Unchanged(c) == ~c.is_regression /\ ~c.is_improvement

\* The claimed classification written on the two measured values: dividing
\* 100 * (latest - baseline) by a negative baseline turns the comparison round.
RegressionExpected(b, l, t) ==
    \/ b > 0 /\ 100 * (l - b) > t * b
    \/ b < 0 /\ 100 * (l - b) < t * b
ImprovementExpected(b, l, t) ==
    \/ b > 0 /\ 100 * (l - b) < (0 - t) * b
    \/ b < 0 /\ 100 * (l - b) > (0 - t) * b

\* C1: for a threshold T >= 0 every record of compare_results is a regression
\* iff its change in percent is strictly above T, an improvement iff it is
\* strictly below -T, unchanged otherwise (so also at exactly T and -T), and
\* never both.
C1_Classification ==
    (Compared /\ threshold >= 0) =>
        \A i \in 1..Len(rust_comparisons) :
            LET c == rust_comparisons[i]
                cp == c.change_percent
            IN  /\ c.is_regression <=>
                     RegressionExpected(c.baseline_value, c.latest_value, threshold)
                /\ c.is_improvement <=>
                     ImprovementExpected(c.baseline_value, c.latest_value, threshold)
                /\ c.is_regression <=> cp.num > threshold * cp.den
                /\ c.is_improvement <=> cp.num < (0 - threshold) * cp.den
                /\ cp.num = threshold * cp.den => Unchanged(c)
                /\ cp.num = (0 - threshold) * cp.den => Unchanged(c)
                /\ ~(c.is_regression /\ c.is_improvement)

\* threshold 5: a change of exactly 5 percent (unchanged), one above it
\* (regression) and one below -5 percent (improvement) in one result
C1_Witness ==
    /\ Compared /\ threshold = 5
    /\ \E i \in 1..Len(rust_comparisons) :
           /\ rust_comparisons[i].baseline_value = 100
           /\ rust_comparisons[i].latest_value = 105
           /\ Unchanged(rust_comparisons[i])
    /\ \E i \in 1..Len(rust_comparisons) : rust_comparisons[i].is_regression
    /\ \E i \in 1..Len(rust_comparisons) : rust_comparisons[i].is_improvement

\* C2: the result of compare_results holds exactly one record for each name
\* that is a key of both mappings, none for any other name, in ascending
\* string order whatever the insertion order of the mappings; it is empty when
\* no name is shared.
C2_IntersectionSorted ==
    Compared =>
        LET shared == Keys(rust_baseline) \cap Keys(rust_latest)
        IN  /\ {ComparedNames[i] : i \in 1..Len(ComparedNames)} = shared
            /\ Len(ComparedNames) = Cardinality(shared)
            /\ \A i, j \in 1..Len(ComparedNames) :
                   i < j => NameLess(ComparedNames[i], ComparedNames[j])
            /\ shared = {} => rust_comparisons = <<>>

\* two shared names inserted in descending order into the baseline, a third
\* name on one side only
C2_Witness ==
    /\ Compared
    /\ Len(rust_baseline) = 3 /\ Len(rust_latest) = 2
    /\ rust_baseline[1].name = NameB /\ rust_baseline[2].name = NameAB
    /\ rust_latest[1].name = NameB /\ rust_latest[2].name = NameA
    /\ Len(rust_comparisons) = 2

\* C3 as claimed: a zero baseline gives a change of exactly 0 and, for T >= 0,
\* an unchanged record; a non-zero baseline gives (latest - baseline) /
\* baseline * 100, positive for an increase of the value and negative for a
\* decrease.
C3_ChangePercentAsClaimed ==
    Compared =>
        \A i \in 1..Len(rust_comparisons) :
            LET c == rust_comparisons[i]
                cp == c.change_percent
                b == c.baseline_value
                l == c.latest_value
            IN  /\ b = 0 => /\ cp.num = 0
                            /\ threshold >= 0 => Unchanged(c)
                /\ b # 0 => /\ cp.num * b = 100 * (l - b) * cp.den
                            /\ l > b => cp.num > 0
                            /\ l < b => cp.num < 0

\* C3 amended: the sign follows the direction of the change when the baseline
\* is positive.
C3_ChangePercent ==
    Compared =>
        \A i \in 1..Len(rust_comparisons) :
            LET c == rust_comparisons[i]
                cp == c.change_percent
                b == c.baseline_value
                l == c.latest_value
            IN  /\ cp.den > 0
                /\ b = 0 => /\ cp.num = 0
                            /\ threshold >= 0 => Unchanged(c)
                /\ b # 0 => cp.num * b = 100 * (l - b) * cp.den
                /\ b > 0 => /\ l > b => cp.num > 0
                            /\ l < b => cp.num < 0

\* a zero baseline with a non-zero latest value, a positive baseline with an
\* increase and one with a decrease
C3_Witness ==
    /\ Compared /\ threshold >= 0
    /\ \E i \in 1..Len(rust_comparisons) :
           /\ rust_comparisons[i].baseline_value = 0
           /\ rust_comparisons[i].latest_value # 0
    /\ \E i \in 1..Len(rust_comparisons) :
           /\ rust_comparisons[i].baseline_value > 0
           /\ rust_comparisons[i].latest_value > rust_comparisons[i].baseline_value
    /\ \E i \in 1..Len(rust_comparisons) :
           /\ rust_comparisons[i].baseline_value > 0
           /\ rust_comparisons[i].latest_value < rust_comparisons[i].baseline_value

\* the file a parser was called on, and what came back
RustCalled == pc = "done_rust"
SwiftCalled == pc = "done_swift"
Sibling == swiftLatestFile.json
Text == swiftLatestFile.text

RustMalformed ==
    \/ rustLatestFile.kind # "ok"
    \/ \E i \in 1..Len(rustLatestFile.entries) :
           LET info == rustLatestFile.entries[i].info
           IN  info.isdict /\ (info.mean_ns = NotNumeric \/ info.value = NotNumeric)

\* C4: neither parser ever raises; on a missing, undecodable or malformed file
\* it returns the empty mapping and gives a warning.
C4_ParsersTotal ==
    /\ (RustCalled \/ SwiftCalled) => ~ret.raised
    /\ (RustCalled /\ RustMalformed) => (ret.results = EmptyDict /\ ret.warned)
    /\ (SwiftCalled /\ Sibling.kind \in BadKinds /\ Text.kind # "ok") =>
           (ret.results = EmptyDict /\ ret.warned)

\* the name a measurement on line j is attached to: the test of the last line
\* up to and including j that carries a quoted name, <<>> when there is none
NameAtLine(lines, j) ==
    IF \E i \in 1..j : lines[i].test # <<>>
    THEN lines[CHOOSE i \in 1..j :
                  /\ lines[i].test # <<>>
                  /\ \A k \in (i + 1)..j : lines[k].test = <<>>].test
    ELSE <<>>
MeasuresOf(lines, n) ==
    {j \in 1..Len(lines) :
        lines[j].measure # Absent /\ NameAtLine(lines, j) = n}
LastOf(S) == CHOOSE j \in S : \A k \in S : k <= j

TextScanReturned ==
    SwiftCalled /\ ret.scanned /\ ~ret.raised

\* C9: the text fallback reads the lines in file order; a quoted name becomes
\* the current name, a measurement is taken only when there is a current name
\* and is stored as number * 1000 in "ms" under the most recent name, a
\* measurement before any name leaves no entry, and of several measurements for
\* one name the last one is kept.
C9_TextStateMachine ==
    TextScanReturned =>
        /\ \A n \in Keys(ret.results) : n # <<>>
        /\ \A n \in ReportNames :
               /\ n \in Keys(ret.results) <=> MeasuresOf(Text.lines, n) # {}
               /\ n \in Keys(ret.results) =>
                      /\ Get(ret.results, n).value =
                             1000 * Text.lines[LastOf(MeasuresOf(Text.lines, n))].measure.n
                      /\ Get(ret.results, n).unit = "ms"

\* a measurement before any name, then two different measurements for one name
C9_Witness ==
    /\ TextScanReturned
    /\ Len(Text.lines) = 3
    /\ Text.lines[1].test = <<>> /\ Text.lines[1].measure = Num(3)
    /\ Text.lines[2].test = NameA /\ Text.lines[2].measure = Num(3)
    /\ Text.lines[3].test = <<>> /\ Text.lines[3].measure = Num(2)
    /\ Keys(ret.results) = {NameA}
    /\ Get(ret.results, NameA).value = 2000

DictEntries(e) == {i \in 1..Len(e) : e[i].info.isdict}

OfKind(lines, k) == SelectSeq(lines, LAMBDA x : x.kind = k)
HasKind(lines, k) == \E i \in 1..Len(lines) : lines[i].kind = k
\* what identifies the record behind a table row or a roll-up item
RowKey(x) == <<x.name, x.base_str.value, x.curr_str.value, x.base_str.suffix>>
RecordKey(c) ==
    <<c.name, c.baseline_value, c.latest_value,
      format_value(c.baseline_value, c.unit).suffix>>
KeysOf(s, F(_)) == [i \in 1..Len(s) |-> F(s[i])]
AnyRecord(Test(_)) ==
    \/ \E i \in 1..Len(rust_comparisons) : Test(rust_comparisons[i])
    \/ \E i \in 1..Len(swift_comparisons) : Test(swift_comparisons[i])
NumberOf(s, Test(_)) == Cardinality({i \in 1..Len(s) : Test(s[i])})
HasStatus(x, st) == x.status = st

\* C6: the summary of the structured report gives the number of records, of
\* regressions and of improvements of the two sequences, and the last two are
\* also the numbers of entries with status "regression" and "improvement".
C6_SummaryCounts ==
    report.format = "json" =>
        /\ report.summary.total = Len(rust_comparisons) + Len(swift_comparisons)
        /\ report.summary.regressions =
               NumberOf(rust_comparisons, is_regression)
               + NumberOf(swift_comparisons, is_regression)
        /\ report.summary.improvements =
               NumberOf(rust_comparisons, is_improvement)
               + NumberOf(swift_comparisons, is_improvement)
        /\ report.summary.regressions =
               NumberOf(report.rust, LAMBDA x : HasStatus(x, "regression"))
               + NumberOf(report.swift, LAMBDA x : HasStatus(x, "regression"))
        /\ report.summary.improvements =
               NumberOf(report.rust, LAMBDA x : HasStatus(x, "improvement"))
               + NumberOf(report.swift, LAMBDA x : HasStatus(x, "improvement"))
        /\ (rust_comparisons = <<>> /\ swift_comparisons = <<>>) =>
               report.summary = [total |-> 0, regressions |-> 0, improvements |-> 0]

\* C8: the narrative report has the headline and the regressions section iff
\* some record of either source is a regression, the improvements section iff
\* some record is an improvement; each roll-up lists the matching records of
\* source A in their order and then those of source B; each per-source table is
\* there iff that source has records and lists that source's records only.
C8_MarkdownSections ==
    report.format = "markdown" =>
        LET l == report.lines
        IN  /\ HasKind(l, "headline") <=> AnyRecord(is_regression)
            /\ HasKind(l, "regressions_section") <=> AnyRecord(is_regression)
            /\ HasKind(l, "regression_item") <=> AnyRecord(is_regression)
            /\ HasKind(l, "improvements_section") <=> AnyRecord(is_improvement)
            /\ HasKind(l, "improvement_item") <=> AnyRecord(is_improvement)
            /\ KeysOf(OfKind(l, "regression_item"), RowKey) =
                   KeysOf(SelectSeq(rust_comparisons, is_regression), RecordKey)
                   \o KeysOf(SelectSeq(swift_comparisons, is_regression), RecordKey)
            /\ KeysOf(OfKind(l, "improvement_item"), RowKey) =
                   KeysOf(SelectSeq(rust_comparisons, is_improvement), RecordKey)
                   \o KeysOf(SelectSeq(swift_comparisons, is_improvement), RecordKey)
            /\ HasKind(l, "rust_table") <=> rust_comparisons # <<>>
            /\ HasKind(l, "swift_table") <=> swift_comparisons # <<>>
            /\ KeysOf(OfKind(l, "rust_row"), RowKey) = KeysOf(rust_comparisons, RecordKey)
            /\ KeysOf(OfKind(l, "swift_row"), RowKey) = KeysOf(swift_comparisons, RecordKey)

\* a regression and an improvement in each of the two sources
C8_Witness ==
    /\ report.format = "markdown"
    /\ Len(OfKind(report.lines, "regression_item")) = 2
    /\ Len(OfKind(report.lines, "improvement_item")) = 2
    /\ Len(rust_comparisons) = 2 /\ Len(swift_comparisons) = 2
    /\ Unchanged(rust_comparisons[1]) = FALSE
    /\ \E i \in 1..2 : swift_comparisons[i].is_regression
    /\ \E i \in 1..2 : rust_comparisons[i].is_regression

Done == pc = "done"

\* C5: main ends with a non-zero status exactly when the results directory is
\* missing, when neither source gave any result, or when some record is a
\* regression, and then after the report was written.
C5_ExitStatus ==
    Done =>
        (exitCode # 0 <=>
            \/ ~dirExists
            \/ dirExists /\ rust_latest = EmptyDict /\ swift_latest = EmptyDict
            \/ writes = 1 /\ AnyRecord(is_regression))

\* C7: the report file is written at most once, with the document that was
\* rendered before; a run that stops for a missing directory or for want of
\* results writes nothing.
C7_ReportWrittenOnce ==
    /\ writes <= 1
    /\ writes = 0 => outFile = NoReport
    /\ writes = 1 => report # NoReport /\ outFile = report
    /\ pc \in {"check_dir", "parse", "check_data", "compare", "render", "write"} =>
           writes = 0
    /\ (Done /\ (~dirExists \/ (rust_latest = EmptyDict /\ swift_latest = EmptyDict))) =>
           (writes = 0 /\ exitCode # 0)

\* a run that ended after writing the rendered report
C7_Witness ==
    /\ Done /\ writes = 1
    /\ report.format = "json" /\ outFile = report
    /\ report.summary.total = 2

====
